---- MODULE Spec2Model ----
(***************************************************************************)
(* playaevents: the piston API handlers for PlayaEvent and ThemeCamp        *)
(* (src/playaevents/api/handlers.py) over the models and managers of        *)
(* src/playaevents/models.py.                                               *)
(*                                                                          *)
(* The store is the two tables the API writes (playaevents_playaevent and   *)
(* playaevents_themecamp), the Occurrence table of swingtime, which the     *)
(* API only reads, and the keyedcache entries of the get_and_cache          *)
(* managers.  Rows are never removed by this code, so a table is a          *)
(* sequence indexed by primary key.  Each handler is one action: a request  *)
(* runs to completion inside one request/response cycle.                    *)
(***************************************************************************)
EXTENDS Integers, Sequences, FiniteSets, TLC

(***************************************************************************)
(* Bounds of the model.                                                     *)
(***************************************************************************)
MaxRows == 2
MaxOccurrences == 1
MaxTime == 2
MaxClock == 2
MaxInflight == 1

(* cache_set(key, value=results, length=60*60*24): one day, which is two   *)
(* units of the clock                                                      *)
CacheLength == 2

(***************************************************************************)
(* Python values.  None is the absent value of a nullable text or boolean   *)
(* column; a boolean column holds "True", "False" or None                   *)
(* (NullBooleanField).  A nullable foreign key holds a primary key or       *)
(* NoRef; primary keys start at 1.  An absent path segment (year_year=None, *)
(* playa_event_id=None) is NoYear / NoId.                                   *)
(***************************************************************************)
None == "None"
PyTrue == "True"
PyFalse == "False"
NoRef == 0
NoId == 0
NoYear == ""
NoTime == 0

PyBool(b) == IF b THEN PyTrue ELSE PyFalse

(***************************************************************************)
(* Reference data the API never writes: the Year rows, the swingtime        *)
(* EventType rows (pk -> abbr), the art installations, the streets, and     *)
(* the users with the api_allowed flag of their profile.                    *)
(***************************************************************************)
Years == {"2011", "2012"}
EventTypes == <<"GN", "WS">>
ArtInstallations == {1}
CircularStreets == {1}
TimeStreets == {1}
api_allowed == [u \in {"alice", "bob", "eve"} |-> u \in {"alice", "bob"}]
Users == DOMAIN api_allowed

(***************************************************************************)
(* str.upper() on the payload strings the model sends.                      *)
(***************************************************************************)
Upper(s) ==
    CASE s = "a" -> "A"
      [] s = "r" -> "R"
      [] s = "u" -> "U"
      [] s = "x" -> "X"
      [] s = "yes" -> "YES"
      [] s = "Yes" -> "YES"
      [] s = "on" -> "ON"
      [] s = "true" -> "TRUE"
      [] s = "t" -> "T"
      [] s = "y" -> "Y"
      [] s = "no" -> "NO"
      [] s = "accepted" -> "ACCEPTED"
      [] OTHER -> s

(***************************************************************************)
(* The ORM's conversion of a primary-key string to an integer: pk="2" is    *)
(* 2, a string that is no number raises ValueError (NotANumber).            *)
(***************************************************************************)
NotANumber == -1
IntOf(s) ==
    CASE s = "0" -> 0
      [] s = "1" -> 1
      [] s = "2" -> 2
      [] s = "3" -> 3
      [] s = "4" -> 4
      [] s = "9" -> 9
      [] OTHER -> NotANumber

(***************************************************************************)
(* QueryDict operations on the payload copy: `key in data`, `del data[key]` *)
(* and `data[key] = value`.                                                 *)
(***************************************************************************)
Has(data, key) == key \in DOMAIN data
Del(data, keys) == [k \in DOMAIN data \ keys |-> data[k]]
Put(data, key, val) == (key :> val) @@ data
Empty == [k \in {} |-> ""]

(***************************************************************************)
(* State.                                                                   *)
(*   events       playaevents_playaevent: pk -> row                         *)
(*   camps        playaevents_themecamp: pk -> row                          *)
(*   occurrences  swingtime Occurrence rows (event, start_time, end_time)   *)
(*   cache        keyedcache: key -> [value, expires]                       *)
(*   clock        time, in units of half a day                              *)
(*   queried      whether the last get_and_cache ran its query on the db    *)
(*   lastcall     history: per cache key, what the last get_and_cache       *)
(*                with that key returned                                    *)
(*   request      the request being answered                                *)
(*   response     what the handler returned for it                          *)
(*   tombstones   history: the events whose last successful write was a     *)
(*                DELETE                                                    *)
(*   backend      the cache backend behind keyedcache: "up", or raising an  *)
(*                error on every read, or raising an error on every write   *)
(*   inflight     the write requests that have loaded their instance and    *)
(*                not yet saved it, each with the instance in memory        *)
(***************************************************************************)
VARIABLES events, camps, occurrences, cache, clock, queried, lastcall,
          request, response, tombstones, backend, inflight

vars == <<events, camps, occurrences, cache, clock, queried, lastcall,
          request, response, tombstones, backend, inflight>>
store == <<events, camps, occurrences>>

(***************************************************************************)
(* Responses.  rc_response(request, rc.X, message) answers with status X    *)
(* and the message; a message 'Event not found #%s' % id is the pair        *)
(* (msg, arg).  An exception no handler catches leaves the handler as       *)
(* status EXCEPTION.  A read answers with the rows of its queryset.         *)
(***************************************************************************)
rc_response(code, msg, arg) ==
    [status |-> code, msg |-> msg, arg |-> arg, pk |-> NoId, rows |-> {}]
Raise(exc) ==
    [status |-> "EXCEPTION", msg |-> exc, arg |-> "", pk |-> NoId, rows |-> {}]
PkResponse(code, pk) ==
    [status |-> code, msg |-> "pk", arg |-> ToString(pk), pk |-> pk, rows |-> {}]
QuerySet(rows) ==
    [status |-> "QUERYSET", msg |-> "", arg |-> "", pk |-> NoId, rows |-> rows]

Req(op, user, method, year_year, id, data, start_time, end_time) ==
    [op |-> op, user |-> user, method |-> method, year_year |-> year_year,
     id |-> id, data |-> data, start_time |-> start_time, end_time |-> end_time]

NoResponse == rc_response("NONE", "", "")

(***************************************************************************)
(* Managers.  PlayaEvent.objects is a plain manager: every row.             *)
(* ThemeCamp.objects filters list_online=True; ThemeCamp.all_objects does   *)
(* not.                                                                     *)
(***************************************************************************)
PlayaEvent_objects == DOMAIN events
ThemeCampAllManager_get_query_set == DOMAIN camps
ThemeCampManager_get_query_set ==
    {c \in DOMAIN camps : camps[c].list_online = PyTrue}

(***************************************************************************)
(* A handler while it runs: the copy of the payload (data), the instance    *)
(* in memory (obj), the response once it has returned (ret), and whether    *)
(* it reached obj.save().  Each step below is one statement block of        *)
(* _create_or_update, in the order of the code; a step after the return     *)
(* does nothing.                                                            *)
(***************************************************************************)
Begin(payload) ==
    [ret |-> NoResponse, data |-> payload, obj |-> Empty, save |-> FALSE]
Returned(h) == h.ret # NoResponse
Return(h, resp) == [h EXCEPT !.ret = resp]

(* faulty variant: the api_allowed flag of the profile is not looked at *)
ApiAllowedAnyone(user) == TRUE

(* user.get_profile().api_allowed *)
ApiAllowed(user) == api_allowed[user]

(* if not user.get_profile().api_allowed: return BAD_REQUEST *)
CheckApiAllowed(h, user) ==
    IF Returned(h) \/ ApiAllowed(user) THEN h
    ELSE Return(h, rc_response("BAD_REQUEST", "User not permitted to use the API", ""))

(* PUT -> request.PUT.copy(), POST -> request.POST.copy(), else BAD_REQUEST *)
CheckMethod(h, method) ==
    IF Returned(h) \/ method \in {"PUT", "POST"} THEN h
    ELSE Return(h, rc_response("BAD_REQUEST", "Bad request method", method))

(* if year_year and 'year' not in data: data['year'] = year_year *)
InjectYear(h, year_year) ==
    IF Returned(h) THEN h
    ELSE IF year_year # NoYear /\ ~Has(h.data, "year")
    THEN [h EXCEPT !.data = Put(h.data, "year", year_year)]
    ELSE h

(* if not (data and user): return BAD_REQUEST *)
CheckCritical(h) ==
    IF Returned(h) \/ DOMAIN h.data # {} THEN h
    ELSE Return(h, rc_response("BAD_REQUEST", "Missing critical information", ""))

(* faulty variant: the year stays in the payload of an update *)
StripYearNot(data) == data

(* on an update: if 'year' in data: del data['year'] *)
StripYear(data) == Del(data, {"year"})

(* faulty variant: the illegal attributes are set on the instance, not    *)
(* dropped                                                                 *)
StripIllegalApplied(h, keys) ==
    IF Returned(h) THEN h
    ELSE [h EXCEPT !.obj =
            [f \in DOMAIN h.obj |->
                IF f \in keys /\ Has(h.data, f) THEN h.data[f] ELSE h.obj[f]]]

(* for key in keys: if key in data: del data[key] *)
StripIllegal(h, keys) ==
    IF Returned(h) THEN h ELSE [h EXCEPT !.data = Del(h.data, keys)]

(* if 'year' in data: obj.year = Year.objects.get(year=data['year']),      *)
(* Year.DoesNotExist -> NOT_HERE                                           *)
ResolveYear(h) ==
    IF Returned(h) \/ ~Has(h.data, "year") THEN h
    ELSE IF h.data["year"] \notin Years
    THEN Return(h, rc_response("NOT_HERE", "No such year", h.data["year"]))
    ELSE [h EXCEPT !.obj.year = h.data["year"]]

(* for key in keys: if key in data: setattr(obj, key, data[key]) *)
SetTextFields(h, keys) ==
    IF Returned(h) THEN h
    ELSE [h EXCEPT !.obj =
            [f \in DOMAIN h.obj |->
                IF f \in keys /\ Has(h.data, f) THEN h.data[f] ELSE h.obj[f]]]

ModerationKeys == {"U", "A", "R"}

(* faulty variant: a moderation that is none of U, A, R is a bad request *)
SetModerationOrFail(h) ==
    IF Returned(h) \/ ~Has(h.data, "moderation") THEN h
    ELSE IF Upper(h.data["moderation"]) \in ModerationKeys
    THEN [h EXCEPT !.obj.moderation = Upper(h.data["moderation"])]
    ELSE Return(h, rc_response("BAD_REQUEST", "Bad moderation", h.data["moderation"]))

(* if 'moderation' in data: modkey = data['moderation'].upper();           *)
(* if modkey in ('U','A','R'): obj.moderation = modkey                     *)
SetModeration(h) ==
    IF Returned(h) \/ ~Has(h.data, "moderation") THEN h
    ELSE IF Upper(h.data["moderation"]) \in ModerationKeys
    THEN [h EXCEPT !.obj.moderation = Upper(h.data["moderation"])]
    ELSE h

(* if key in data: try: obj.<key> = Model.objects.get(pk=data[key])        *)
(* except Model.DoesNotExist: return NOT_HERE.  A key that is no number    *)
(* raises ValueError, which the handler does not catch.                    *)
SetForeignKey(h, key, rows, message) ==
    IF Returned(h) \/ ~Has(h.data, key) THEN h
    ELSE IF IntOf(h.data[key]) = NotANumber THEN Return(h, Raise("ValueError"))
    ELSE IF IntOf(h.data[key]) \notin rows
    THEN Return(h, rc_response("NOT_HERE", message, h.data[key]))
    ELSE [h EXCEPT !.obj[key] = IntOf(h.data[key])]

Truthy == {"1", "T", "Y", "YES", "TRUE", "ON"}

(* faulty variant: the value is compared as it was sent, not upper-cased *)
CoerceBoolAsSent(val) == PyBool(val \in Truthy)

(* val = data[key].upper(); val = val in ('1','T','Y','YES','TRUE','ON') *)
CoerceBool(val) == PyBool(Upper(val) \in Truthy)

(* for key in keys: if key in data: setattr(obj, key, coerced data[key]) *)
SetBoolFields(h, keys) ==
    IF Returned(h) THEN h
    ELSE [h EXCEPT !.obj =
            [f \in DOMAIN h.obj |->
                IF f \in keys /\ Has(h.data, f)
                THEN CoerceBool(h.data[f])
                ELSE h.obj[f]]]

(* method == 'PUT' -> rc.ALL_OK, else rc.CREATED *)
WriteStatus(method) == IF method = "PUT" THEN "ALL_OK" ELSE "CREATED"

(* faulty variant: the instance is saved although the handler has returned an      *)
(* error, with the assignments made up to the return                       *)
SaveDespiteReturn(h, method, pk) ==
    IF Returned(h)
    THEN IF h.obj = Empty THEN h ELSE [h EXCEPT !.save = TRUE]
    ELSE IF h.obj.year = None THEN Return(h, Raise("IntegrityError"))
    ELSE [h EXCEPT !.save = TRUE, !.ret = PkResponse(WriteStatus(method), pk)]

(* obj.save(); response.content = json.dumps({'pk': obj.id}).  year is a   *)
(* NOT NULL foreign key: saving an instance without one raises             *)
(* IntegrityError.                                                         *)
Save(h, method, pk) ==
    IF Returned(h) THEN h
    ELSE IF h.obj.year = None THEN Return(h, Raise("IntegrityError"))
    ELSE [h EXCEPT !.save = TRUE, !.ret = PkResponse(WriteStatus(method), pk)]

(* faulty variant: the moderation column defaults to Accepted *)
NewPlayaEventAccepted ==
    [year |-> None, print_description |-> "", slug |-> "",
     hosted_by_camp |-> NoRef, located_at_art |-> NoRef,
     other_location |-> None, check_location |-> None, url |-> None,
     contact_email |-> None, all_day |-> None, list_online |-> None,
     list_contact_online |-> None, creator |-> None, moderation |-> "A",
     event_type |-> NoRef]

(***************************************************************************)
(* PlayaEvent(): a new instance with the defaults of the model's fields.    *)
(***************************************************************************)
NewPlayaEvent ==
    [year |-> None, print_description |-> "", slug |-> "",
     hosted_by_camp |-> NoRef, located_at_art |-> NoRef,
     other_location |-> None, check_location |-> None, url |-> None,
     contact_email |-> None, all_day |-> None, list_online |-> None,
     list_contact_online |-> None, creator |-> None, moderation |-> "U",
     event_type |-> NoRef]

EventTextFields ==
    {"print_description", "url", "contact_email", "other_location", "slug"}
EventBoolFields ==
    {"check_location", "all_day", "list_online", "list_contact_online"}

(* faulty variant: an abbreviation of no EventType falls back to the first *)
EventTypeByAbbrOrFirst(abbr) ==
    IF \E t \in DOMAIN EventTypes : EventTypes[t] = abbr
    THEN {t \in DOMAIN EventTypes : EventTypes[t] = abbr}
    ELSE {1}

(* EventType.objects.get(abbr=...): the pks with that abbr *)
EventTypeByAbbr(abbr) == {t \in DOMAIN EventTypes : EventTypes[t] = abbr}
DefaultEventType == 1

(***************************************************************************)
(* PlayaEventHandler._create_or_update                                      *)
(***************************************************************************)
(* if playa_event_id: obj = PlayaEvent.objects.get(pk=...), del year       *)
(* else: obj = PlayaEvent(); obj.creator = user; obj.event_type = ...      *)
EventLoad(h, user, playa_event_id) ==
    IF Returned(h) THEN h
    ELSE IF playa_event_id # NoId
    THEN IF playa_event_id \notin PlayaEvent_objects
         THEN Return(h, rc_response("NOT_HERE", "Event not found",
                                    ToString(playa_event_id)))
         ELSE [h EXCEPT !.obj = events[playa_event_id],
                        !.data = StripYear(h.data)]
    ELSE IF ~Has(h.data, "event_type")
    THEN [h EXCEPT !.obj = [NewPlayaEvent EXCEPT
                               !.creator = user,
                               !.event_type = DefaultEventType]]
    ELSE IF EventTypeByAbbr(h.data["event_type"]) = {}
    THEN Return(h, rc_response("NOT_HERE", "No such EventType",
                               h.data["event_type"]))
    ELSE [h EXCEPT !.obj = [NewPlayaEvent EXCEPT
                               !.creator = user,
                               !.event_type =
                                   CHOOSE t \in EventTypeByAbbr(h.data["event_type"]) : TRUE]]

(* the handler up to obj.save(): the instance loaded or made, and the      *)
(* payload applied to it in memory                                         *)
PlayaEventHandler_modify(user, method, year_year, playa_event_id, payload) ==
    LET h1 == CheckApiAllowed(Begin(payload), user)
        h2 == CheckMethod(h1, method)
        h3 == InjectYear(h2, year_year)
        h4 == CheckCritical(h3)
        h5 == EventLoad(h4, user, playa_event_id)
        h6 == StripIllegal(h5, {"id", "pk"})
        h7 == ResolveYear(h6)
        h8 == SetTextFields(h7, EventTextFields)
        h9 == SetModeration(h8)
        h10 == SetForeignKey(h9, "hosted_by_camp",
                             ThemeCampManager_get_query_set, "No such camp")
        h11 == SetForeignKey(h10, "located_at_art", ArtInstallations,
                             "No such art")
        h12 == SetBoolFields(h11, EventBoolFields)
    IN  h12

PlayaEventHandler_create_or_update(user, method, year_year, playa_event_id, payload) ==
    LET pk == IF playa_event_id # NoId THEN playa_event_id ELSE Len(events) + 1
    IN  Save(PlayaEventHandler_modify(user, method, year_year, playa_event_id, payload),
             method, pk)

(***************************************************************************)
(* PlayaEventHandler.delete                                                 *)
(***************************************************************************)
(* obj.moderation = 'R' *)
RejectEvent(obj) == [obj EXCEPT !.moderation = "R"]

(* faulty variant: the absent id is answered like the missing permission, and the  *)
(* message for an unknown id leaves the id out                             *)
PlayaEventHandler_delete_Slip(user, playa_event_id) ==
    LET h1 == CheckApiAllowed(Begin(Empty), user)
    IN  IF Returned(h1) THEN h1
        ELSE IF playa_event_id = NoId
        THEN Return(h1, rc_response("BAD_REQUEST", "Event ID required", ""))
        ELSE IF playa_event_id \notin PlayaEvent_objects
        THEN Return(h1, rc_response("NOT_HERE", "Event not found", ""))
        ELSE [h1 EXCEPT
                !.obj = RejectEvent(events[playa_event_id]),
                !.save = TRUE,
                !.ret = [rc_response("DELETED", "Event rejected",
                                     ToString(playa_event_id))
                            EXCEPT !.pk = playa_event_id]]

PlayaEventHandler_delete(user, playa_event_id) ==
    LET h1 == CheckApiAllowed(Begin(Empty), user)
    IN  IF Returned(h1) THEN h1
        ELSE IF playa_event_id = NoId
        THEN Return(h1, rc_response("NOT_HERE", "Event ID required", ""))
        ELSE IF playa_event_id \notin PlayaEvent_objects
        THEN Return(h1, rc_response("NOT_HERE", "Event not found",
                                    ToString(playa_event_id)))
        ELSE [h1 EXCEPT
                !.obj = RejectEvent(events[playa_event_id]),
                !.save = TRUE,
                !.ret = [rc_response("DELETED", "Event rejected",
                                     ToString(playa_event_id))
                            EXCEPT !.pk = playa_event_id]]

(***************************************************************************)
(* BasePlayaEventHandler.read                                               *)
(***************************************************************************)
(* Occurrence.objects.filter(start_time__gte, end_time__lte)               *)
(*     .values_list('event', flat=True); an absent bound is no filter      *)
OccurrenceEvents(start_time, end_time) ==
    {o.event : o \in
        {x \in occurrences :
            /\ (start_time # NoTime => x.start_time >= start_time)
            /\ (end_time # NoTime => x.end_time <= end_time)}}

(* base = PlayaEvent.objects.filter(moderation='A', list_online=True) *)
EventBase ==
    {e \in PlayaEvent_objects :
        events[e].moderation = "A" /\ events[e].list_online = PyTrue}

(* PlayaEvent.objects.filter(year=year, id=playa_event_id, list_online=True) *)
EventByYearAndId(year, playa_event_id) ==
    {e \in PlayaEvent_objects :
        /\ events[e].year = year
        /\ e = playa_event_id
        /\ events[e].list_online = PyTrue}

(* PlayaEvent.objects.filter(id__in=event_list) *)
EventByOccurrence(start_time, end_time) ==
    {e \in PlayaEvent_objects : e \in OccurrenceEvents(start_time, end_time)}

(* faulty variant: the year listing does not look at the moderation *)
EventByYearAnyModeration(year) ==
    {e \in PlayaEvent_objects :
        /\ events[e].year = year
        /\ events[e].list_online = PyTrue}

(* PlayaEvent.objects.filter(year=year, moderation='A', list_online=True) *)
EventByYear(year) ==
    {e \in PlayaEvent_objects :
        /\ events[e].year = year
        /\ events[e].moderation = "A"
        /\ events[e].list_online = PyTrue}

BasePlayaEventHandler_read(year_year, playa_event_id, start_time, end_time) ==
    IF year_year = NoYear THEN QuerySet(EventBase)
    ELSE IF year_year \notin Years THEN Raise("DoesNotExist")
    ELSE IF playa_event_id # NoId
    THEN QuerySet(EventByYearAndId(year_year, playa_event_id))
    ELSE IF start_time # NoTime \/ end_time # NoTime
    THEN QuerySet(EventByOccurrence(start_time, end_time))
    ELSE QuerySet(EventByYear(year_year))

(***************************************************************************)
(* ThemeCamp(): the defaults of the model's columns.  The handler also      *)
(* sets obj.creator and obj.time_street, which are no columns of ThemeCamp: *)
(* save() does not store them.                                              *)
(***************************************************************************)
NewThemeCamp ==
    [name |-> "", year |-> None, slug |-> None, description |-> None,
     url |-> None, hometown |-> None, location_string |-> None,
     list_online |-> PyTrue, circular_street |-> NoRef, bm_fm_id |-> None,
     deleted |-> PyFalse]

ThemeCampColumns == DOMAIN NewThemeCamp
CampTextFields ==
    {"name", "description", "url", "hometown", "location_string", "slug"}
CampBoolFields == {"list_online"}

(* the instance in memory: the row and the attributes that are no columns *)
CampInstance(row, creator) ==
    [creator |-> creator, time_street |-> NoRef] @@ row
(* obj.save() writes the columns *)
CampRow(obj) == [f \in ThemeCampColumns |-> obj[f]]

(***************************************************************************)
(* ThemeCampHandler._create_or_update                                       *)
(***************************************************************************)
(* if camp_id: obj = ThemeCamp.objects.get(pk=camp_id), del year           *)
(* else: obj = ThemeCamp(); obj.creator = user                             *)
CampLoad(h, user, camp_id) ==
    IF Returned(h) THEN h
    ELSE IF camp_id = NoId
    THEN [h EXCEPT !.obj = CampInstance(NewThemeCamp, user)]
    ELSE IF camp_id \notin ThemeCampManager_get_query_set
    THEN Return(h, rc_response("NOT_HERE", "ThemeCamp not found",
                               ToString(camp_id)))
    ELSE [h EXCEPT !.obj = CampInstance(camps[camp_id], None),
                   !.data = StripYear(h.data)]

CampSave(h, method, pk) ==
    LET s == Save(h, method, pk)
    IN  IF s.save THEN [s EXCEPT !.obj = CampRow(s.obj)] ELSE s

(* the handler up to, and without, obj.save() *)
ThemeCampHandler_modify(user, method, year_year, camp_id, payload) ==
    LET h1 == CheckApiAllowed(Begin(payload), user)
        h2 == CheckMethod(h1, method)
        h3 == InjectYear(h2, year_year)
        h4 == CheckCritical(h3)
        h5 == CampLoad(h4, user, camp_id)
        h6 == StripIllegal(h5, {"id", "pk", "bm_fm_id", "deleted"})
        h7 == ResolveYear(h6)
        h8 == SetForeignKey(h7, "circular_street", CircularStreets,
                            "No such CircularStreet")
        h9 == SetForeignKey(h8, "time_street", TimeStreets,
                            "No such TimeStreet")
        h10 == SetTextFields(h9, CampTextFields)
    IN  SetBoolFields(h10, CampBoolFields)

ThemeCampHandler_create_or_update(user, method, year_year, camp_id, payload) ==
    LET pk == IF camp_id # NoId THEN camp_id ELSE Len(camps) + 1
    IN  CampSave(ThemeCampHandler_modify(user, method, year_year, camp_id, payload),
                 method, pk)

(***************************************************************************)
(* ThemeCampHandler.delete                                                  *)
(***************************************************************************)
(* obj.deleted = True *)
MarkCampDeleted(row) == [row EXCEPT !.deleted = PyTrue]

ThemeCampHandler_delete(user, camp_id) ==
    LET h1 == CheckApiAllowed(Begin(Empty), user)
    IN  IF Returned(h1) THEN h1
        ELSE IF camp_id = NoId
        THEN Return(h1, rc_response("NOT_HERE", "Camp ID required", ""))
        ELSE IF camp_id \notin ThemeCampManager_get_query_set
        THEN Return(h1, rc_response("NOT_HERE", "Camp not found",
                                    ToString(camp_id)))
        ELSE [h1 EXCEPT
                !.obj = MarkCampDeleted(camps[camp_id]),
                !.save = TRUE,
                !.ret = [rc_response("DELETED", "Camp deleted",
                                     ToString(camp_id))
                            EXCEPT !.pk = camp_id]]

(***************************************************************************)
(* BaseThemeCampHandler.read, over ThemeCamp.objects                        *)
(***************************************************************************)
(* base = ThemeCamp.objects.filter(list_online=True) *)
CampBase ==
    {c \in ThemeCampManager_get_query_set : camps[c].list_online = PyTrue}

(* ThemeCamp.objects.filter(year=year, id=camp_id, list_online=True) *)
CampByYearAndId(year, camp_id) ==
    {c \in ThemeCampManager_get_query_set :
        /\ camps[c].year = year
        /\ c = camp_id
        /\ camps[c].list_online = PyTrue}

(* ThemeCamp.objects.filter(year=year, list_online=True) *)
CampByYear(year) ==
    {c \in ThemeCampManager_get_query_set :
        camps[c].year = year /\ camps[c].list_online = PyTrue}

BaseThemeCampHandler_read(year_year, camp_id) ==
    IF year_year = NoYear THEN QuerySet(CampBase)
    ELSE IF year_year \notin Years THEN Raise("DoesNotExist")
    ELSE IF camp_id # NoId THEN QuerySet(CampByYearAndId(year_year, camp_id))
    ELSE QuerySet(CampByYear(year_year))

(***************************************************************************)
(* AnonymousThemeCampHandler.read(request, year_year=None,                  *)
(* playa_event_id=None), called with the keyword arguments of the URL.  A   *)
(* keyword a Python function does not declare raises TypeError.  The        *)
(* method passes year_year and playa_event_id on to                         *)
(* BaseThemeCampHandler.read, which declares year_year and camp_id.         *)
(***************************************************************************)
BaseThemeCampHandler_read_keywords == {"year_year", "camp_id"}
AnonymousThemeCampHandler_read_keywords == {"year_year", "playa_event_id"}

(* the value of a keyword argument: the one passed, or the default None *)
Keyword(kwargs, key, default) == IF Has(kwargs, key) THEN kwargs[key] ELSE default

AnonymousThemeCampHandler_read(kwargs) ==
    IF ~(DOMAIN kwargs \subseteq AnonymousThemeCampHandler_read_keywords)
    THEN Raise("TypeError")
    ELSE LET passed == [year_year |-> Keyword(kwargs, "year_year", NoYear),
                        playa_event_id |-> Keyword(kwargs, "playa_event_id", NoId)]
         IN  IF ~(DOMAIN passed \subseteq BaseThemeCampHandler_read_keywords)
             THEN Raise("TypeError")
             ELSE BaseThemeCampHandler_read(
                      Keyword(passed, "year_year", NoYear),
                      Keyword(passed, "camp_id", NoId))

(* ThemeCamp.all_objects.filter(pk=camp_id): the unfiltered accessor *)
ThemeCamp_all_objects_by_id(camp_id) ==
    {c \in ThemeCampAllManager_get_query_set : c = camp_id}

(***************************************************************************)
(* The get_and_cache managers over keyedcache.  cache_key(kind, 'all',      *)
(* **kwargs) is the pair of the kind and the keyword arguments; cache_get   *)
(* raises NotCachedError for a key that was never set or whose length has   *)
(* run out; cache_set stores the value for CacheLength.  list(results)      *)
(* evaluates the queryset: the cached value is the sequence of the rows as  *)
(* they were then, in the order of the model's Meta.ordering.               *)
(***************************************************************************)
cache_key(kind, kwargs) == <<kind, kwargs>>
Cached(key) == key \in DOMAIN cache /\ clock < cache[key].expires
cache_set(key, value) ==
    (key :> [value |-> value, expires |-> clock + CacheLength]) @@ cache

(* self.filter(kwargs) or self.all(): the rows of a queryset that match   *)
(* every keyword argument                                                  *)
Matches(row, kwargs) == \A f \in DOMAIN kwargs : row[f] = kwargs[f]

YearRank(year) == CASE year = "2011" -> 1 [] year = "2012" -> 2 [] OTHER -> 0
NameRank(name) == CASE name = "" -> 0 [] name = "Camp A" -> 1 [] OTHER -> 2

(* ThemeCamp.Meta.ordering = ('year', 'name'); the primary key decides     *)
(* between equal rows                                                      *)
CampBefore(a, b) ==
    \/ YearRank(camps[a].year) < YearRank(camps[b].year)
    \/ /\ camps[a].year = camps[b].year
       /\ \/ NameRank(camps[a].name) < NameRank(camps[b].name)
          \/ camps[a].name = camps[b].name /\ a <= b

RECURSIVE CampList(_)
CampList(pks) ==
    IF pks = {} THEN << >>
    ELSE LET first == CHOOSE a \in pks : \A b \in pks : CampBefore(a, b)
         IN  <<[pk |-> first, row |-> camps[first]]>> \o CampList(pks \ {first})

(* PlayaEvent declares no ordering of its own: by primary key *)
RECURSIVE EventList(_)
EventList(pks) ==
    IF pks = {} THEN << >>
    ELSE LET first == CHOOSE a \in pks : \A b \in pks : a <= b
         IN  <<[pk |-> first, row |-> events[first]]>> \o EventList(pks \ {first})

(* faulty variant: the query runs, and its result is returned and stored, although *)
(* the key is cached                                                       *)
GetOrComputeAlways(key, computed) ==
    [results |-> computed, queried |-> TRUE, cache |-> cache_set(key, computed)]

(* try: results = cache_get(key)                                           *)
(* except NotCachedError: results = list(query); cache_set(key, results)   *)
GetOrCompute(key, computed) ==
    IF Cached(key)
    THEN [results |-> cache[key].value, queried |-> FALSE, cache |-> cache]
    ELSE [results |-> computed, queried |-> TRUE,
          cache |-> cache_set(key, computed)]

ThemeCampManager_get_and_cache(kwargs) ==
    GetOrCompute(
        cache_key("ThemeCamp", kwargs),
        CampList({c \in ThemeCampManager_get_query_set : Matches(camps[c], kwargs)}))

ThemeCampAllManager_get_and_cache(kwargs) ==
    GetOrCompute(
        cache_key("ThemeCampAll", kwargs),
        CampList({c \in ThemeCampAllManager_get_query_set : Matches(camps[c], kwargs)}))

PlayaEventManager_get_and_cache(kwargs) ==
    GetOrCompute(
        cache_key("PlayaEvent", kwargs),
        EventList({e \in PlayaEvent_objects : Matches(events[e], kwargs)}))

(***************************************************************************)
(* PlayaEventManager.search(searchtext, year).  The full-text match is      *)
(* done by the database: own is the set of events whose own search_tsv      *)
(* matches the text, linked the set whose swingtime event's search_tsv      *)
(* matches.  Both queries keep moderation='A' and list_online='t'; the      *)
(* first one, taken when year is given and is not 'all', joins the year.    *)
(***************************************************************************)
AllYears == "all"

(* faulty variant: 'all' is looked up as a year like any other *)
PlayaEventManager_search_AllIsAYear(own, linked, year) ==
    IF year # NoYear
    THEN {e \in PlayaEvent_objects :
            /\ e \in linked \/ e \in own
            /\ events[e].year = year
            /\ events[e].moderation = "A"
            /\ events[e].list_online = PyTrue}
    ELSE {e \in PlayaEvent_objects :
            /\ e \in linked \/ e \in own
            /\ events[e].moderation = "A"
            /\ events[e].list_online = PyTrue}

PlayaEventManager_search(own, linked, year) ==
    IF year # NoYear /\ year # AllYears
    THEN {e \in PlayaEvent_objects :
            /\ e \in linked \/ e \in own
            /\ events[e].year = year
            /\ events[e].moderation = "A"
            /\ events[e].list_online = PyTrue}
    ELSE {e \in PlayaEvent_objects :
            /\ e \in linked \/ e \in own
            /\ events[e].moderation = "A"
            /\ events[e].list_online = PyTrue}

(***************************************************************************)
(* The actions: one per handler.  A write that reaches obj.save() replaces  *)
(* the row of its target, or adds the row of a new instance under the next  *)
(* primary key.                                                             *)
(***************************************************************************)
NoRequest == Req("none", "", "", NoYear, NoId, Empty, NoTime, NoTime)

Init ==
    /\ events = << >>
    /\ camps = << >>
    /\ occurrences = {}
    /\ cache = Empty
    /\ clock = 0
    /\ queried = FALSE
    /\ lastcall = Empty
    /\ request = NoRequest
    /\ response = NoResponse
    /\ tombstones = {}
    /\ backend = "up"
    /\ inflight = {}

(* what obj.save() leaves in the table: an INSERT under the next primary   *)
(* key for a new instance, an UPDATE of the row otherwise                  *)
Store(table, id, out) ==
    IF ~out.save THEN table
    ELSE IF id = NoId THEN Append(table, out.obj)
    ELSE [table EXCEPT ![id] = out.obj]

PlayaEventWrite(user, method, year_year, playa_event_id, payload) ==
    LET out == PlayaEventHandler_create_or_update(
                   user, method, year_year, playa_event_id, payload)
    IN  /\ playa_event_id = NoId => Len(events) + Len(camps) < MaxRows
        /\ events' = Store(events, playa_event_id, out)
        /\ tombstones' = IF out.save THEN tombstones \ {playa_event_id}
                         ELSE tombstones
        /\ request' = Req("event_write", user, method, year_year,
                          playa_event_id, payload, NoTime, NoTime)
        /\ response' = out.ret
        /\ UNCHANGED <<camps, occurrences, cache, clock, queried, lastcall, backend, inflight>>

PlayaEventDelete(user, year_year, playa_event_id) ==
    LET out == PlayaEventHandler_delete(user, playa_event_id)
    IN  /\ events' = Store(events, playa_event_id, out)
        /\ tombstones' = IF out.save THEN tombstones \cup {playa_event_id}
                         ELSE tombstones
        /\ request' = Req("event_delete", user, "DELETE", year_year,
                          playa_event_id, Empty, NoTime, NoTime)
        /\ response' = out.ret
        /\ UNCHANGED <<camps, occurrences, cache, clock, queried, lastcall, backend, inflight>>

PlayaEventRead(year_year, playa_event_id, start_time, end_time) ==
    /\ request' = Req("event_read", "", "GET", year_year, playa_event_id,
                      Empty, start_time, end_time)
    /\ response' = BasePlayaEventHandler_read(
                       year_year, playa_event_id, start_time, end_time)
    /\ UNCHANGED <<events, camps, occurrences, cache, clock, queried, lastcall, backend, tombstones, inflight>>

ThemeCampWrite(user, method, year_year, camp_id, payload) ==
    LET out == ThemeCampHandler_create_or_update(
                   user, method, year_year, camp_id, payload)
    IN  /\ camp_id = NoId => Len(events) + Len(camps) < MaxRows
        /\ camps' = Store(camps, camp_id, out)
        /\ request' = Req("camp_write", user, method, year_year, camp_id,
                          payload, NoTime, NoTime)
        /\ response' = out.ret
        /\ UNCHANGED <<events, occurrences, cache, clock, queried, lastcall, backend, tombstones, inflight>>

ThemeCampDelete(user, year_year, camp_id) ==
    LET out == ThemeCampHandler_delete(user, camp_id)
    IN  /\ camps' = Store(camps, camp_id, out)
        /\ request' = Req("camp_delete", user, "DELETE", year_year, camp_id,
                          Empty, NoTime, NoTime)
        /\ response' = out.ret
        /\ UNCHANGED <<events, occurrences, cache, clock, queried, lastcall, backend, tombstones, inflight>>

ThemeCampRead(year_year, camp_id) ==
    /\ request' = Req("camp_read", "", "GET", year_year, camp_id, Empty,
                      NoTime, NoTime)
    /\ response' = BaseThemeCampHandler_read(year_year, camp_id)
    /\ UNCHANGED <<events, camps, occurrences, cache, clock, queried, lastcall, backend, tombstones, inflight>>

(* a GET of the camps by a caller who is not authenticated: piston hands   *)
(* it to the anonymous handler with the keyword arguments of the URL       *)
AnonymousThemeCampRead(kwargs) ==
    /\ request' = Req("camp_read_anonymous", "", "GET",
                      Keyword(kwargs, "year_year", NoYear),
                      Keyword(kwargs, "camp_id", NoId), Empty, NoTime, NoTime)
    /\ response' = AnonymousThemeCampHandler_read(kwargs)
    /\ UNCHANGED <<events, camps, occurrences, cache, clock, queried,
                   lastcall, tombstones, backend, inflight>>

(***************************************************************************)
(* Two requests on the same event run side by side: _create_or_update      *)
(* reads the row into an instance (PlayaEvent.objects.get), changes the     *)
(* instance in memory, and obj.save() then writes every column of the       *)
(* instance back; no transaction or lock spans the two.  PlayaEventLoad is  *)
(* the handler up to the save, PlayaEventSave its obj.save() and response.  *)
(***************************************************************************)
PlayaEventLoad(user, method, year_year, playa_event_id, payload) ==
    LET h == PlayaEventHandler_modify(user, method, year_year,
                                      playa_event_id, payload)
    IN  /\ Cardinality(inflight) < MaxInflight
        /\ IF Returned(h)
           THEN /\ request' = Req("event_write", user, method, year_year,
                                  playa_event_id, payload, NoTime, NoTime)
                /\ response' = h.ret
                /\ inflight' = inflight
           ELSE /\ inflight' = inflight \cup
                       {[h |-> h, user |-> user, method |-> method,
                         year_year |-> year_year, id |-> playa_event_id,
                         payload |-> payload]}
                /\ UNCHANGED <<request, response>>
        /\ UNCHANGED <<events, camps, occurrences, cache, clock, queried,
                       lastcall, tombstones, backend>>

PlayaEventSave(w) ==
    LET pk == IF w.id # NoId THEN w.id ELSE Len(events) + 1
        out == Save(w.h, w.method, pk)
    IN  /\ w \in inflight
        /\ w.id = NoId => Len(events) + Len(camps) < MaxRows
        /\ events' = Store(events, w.id, out)
        /\ tombstones' = IF out.save THEN tombstones \ {w.id} ELSE tombstones
        /\ request' = Req("event_write", w.user, w.method, w.year_year, w.id,
                          w.payload, NoTime, NoTime)
        /\ response' = out.ret
        /\ inflight' = inflight \ {w}
        /\ UNCHANGED <<camps, occurrences, cache, clock, queried, lastcall,
                       backend>>

(***************************************************************************)
(* The same for a theme camp: ThemeCampLoad is ThemeCampHandler's          *)
(* _create_or_update up to the save (ThemeCamp.objects.get and the field    *)
(* loops), ThemeCampSave its obj.save() and response.                       *)
(***************************************************************************)
ThemeCampLoad(user, method, year_year, camp_id, payload) ==
    LET h == ThemeCampHandler_modify(user, method, year_year, camp_id, payload)
    IN  /\ Cardinality(inflight) < MaxInflight
        /\ IF Returned(h)
           THEN /\ request' = Req("camp_write", user, method, year_year,
                                  camp_id, payload, NoTime, NoTime)
                /\ response' = h.ret
                /\ inflight' = inflight
           ELSE /\ inflight' = inflight \cup
                       {[h |-> h, user |-> user, method |-> method,
                         year_year |-> year_year, id |-> camp_id,
                         payload |-> payload]}
                /\ UNCHANGED <<request, response>>
        /\ UNCHANGED <<events, camps, occurrences, cache, clock, queried,
                       lastcall, tombstones, backend>>

ThemeCampSave(w) ==
    LET pk == IF w.id # NoId THEN w.id ELSE Len(camps) + 1
        out == CampSave(w.h, w.method, pk)
    IN  /\ w \in inflight
        /\ w.id = NoId => Len(events) + Len(camps) < MaxRows
        /\ camps' = Store(camps, w.id, out)
        /\ request' = Req("camp_write", w.user, w.method, w.year_year, w.id,
                          w.payload, NoTime, NoTime)
        /\ response' = out.ret
        /\ inflight' = inflight \ {w}
        /\ UNCHANGED <<events, occurrences, cache, clock, queried, lastcall,
                       tombstones, backend>>

(***************************************************************************)
(* The scheduling subsystem (swingtime) adds an occurrence to an event;     *)
(* this API only reads the table.                                           *)
(***************************************************************************)
AddOccurrence(e, start_time, end_time) ==
    /\ Cardinality(occurrences) < MaxOccurrences
    /\ e \in DOMAIN events
    /\ start_time <= end_time
    /\ occurrences' = occurrences \cup
           {[event |-> e, start_time |-> start_time, end_time |-> end_time]}
    /\ UNCHANGED <<events, camps, cache, clock, queried, lastcall, backend, request, response,
                   tombstones, inflight>>

(***************************************************************************)
(* A call of get_and_cache on one of the three managers.                    *)
(***************************************************************************)
Accessors == {"ThemeCamp", "ThemeCampAll", "PlayaEvent"}

get_and_cache(kind, kwargs) ==
    CASE kind = "ThemeCamp" -> ThemeCampManager_get_and_cache(kwargs)
      [] kind = "ThemeCampAll" -> ThemeCampAllManager_get_and_cache(kwargs)
      [] kind = "PlayaEvent" -> PlayaEventManager_get_and_cache(kwargs)

GetAndCache(kind, kwargs) ==
    LET out == get_and_cache(kind, kwargs)
    IN  /\ backend = "up"
        /\ cache' = out.cache
        /\ queried' = out.queried
        /\ lastcall' = (cache_key(kind, kwargs) :> out.results) @@ lastcall
        /\ request' = Req(kind, "", "get_and_cache", NoYear, NoId, kwargs,
                          NoTime, NoTime)
        /\ response' = QuerySet(out.results)
        /\ UNCHANGED <<events, camps, occurrences, clock, tombstones, backend, inflight>>

(***************************************************************************)
(* get_and_cache while the cache backend fails.  `except NotCachedError`    *)
(* is the only handler around cache_get, and cache_set stands outside any   *)
(* try: an error of the backend on the read, or on the write after the      *)
(* query has run, leaves get_and_cache as an exception.  A hit never calls  *)
(* cache_set.                                                               *)
(***************************************************************************)
BackendStates == {"up", "get fails", "set fails"}

GetAndCacheBackendDown(kind, kwargs) ==
    LET out == get_and_cache(kind, kwargs)
        raised == backend = "get fails" \/ out.queried
    IN  /\ backend # "up"
        /\ cache' = cache
        /\ queried' = (backend = "set fails" /\ out.queried)
        /\ lastcall' = IF raised THEN lastcall
                       ELSE (cache_key(kind, kwargs) :> out.results) @@ lastcall
        /\ request' = Req(kind, "", "get_and_cache", NoYear, NoId, kwargs,
                          NoTime, NoTime)
        /\ response' = IF raised THEN Raise("CacheBackendError")
                       ELSE QuerySet(out.results)
        /\ UNCHANGED <<events, camps, occurrences, clock, tombstones, backend, inflight>>

(* the backend goes down or comes back; no request is being answered *)
SetBackend(b) ==
    /\ b # backend
    /\ backend' = b
    /\ request' = NoRequest
    /\ response' = NoResponse
    /\ UNCHANGED <<events, camps, occurrences, cache, clock, queried,
                   lastcall, tombstones, inflight>>

(***************************************************************************)
(* A call of PlayaEvent.objects.search.                                     *)
(***************************************************************************)
PlayaEventSearch(own, linked, year) ==
    /\ request' = Req("event_search", "", "search", year, NoId,
                      [own |-> own, linked |-> linked], NoTime, NoTime)
    /\ response' = QuerySet(PlayaEventManager_search(own, linked, year))
    /\ UNCHANGED <<events, camps, occurrences, cache, clock, queried,
                   lastcall, tombstones, backend, inflight>>

(* time passes; no request is being answered *)
Tick ==
    /\ clock < MaxClock
    /\ clock' = clock + 1
    /\ request' = NoRequest
    /\ response' = NoResponse
    /\ UNCHANGED <<events, camps, occurrences, cache, queried, lastcall, backend,
                   tombstones, inflight>>

(***************************************************************************)
(* The requests the model sends: <<user, method, year_year, id, payload>>.  *)
(* Path ids are the rows the bounds allow and one that never exists.        *)
(***************************************************************************)
MissingId == MaxRows + 7
EventIds == 1..MaxRows
CampIds == 1..MaxRows
Times == 1..MaxTime

EventCreates ==
    ({"alice"} \X {"POST"} \X {"2012"} \X {NoId} \X
        {[title |-> "Sunrise Yoga"],
         [moderation |-> "a", list_online |-> "yes"],
         [year |-> "2011"],
         [event_type |-> "ZZ"],
         [hosted_by_camp |-> "9"]})
    \cup
    {<<"alice", "POST", NoYear, NoId, Empty>>,
     <<"alice", "POST", NoYear, NoId, [title |-> "Sunrise Yoga"]>>,
     <<"alice", "POST", "1999", NoId, [title |-> "Sunrise Yoga"]>>,
     <<"alice", "PUT", "2012", NoId, [moderation |-> "x", list_online |-> "ON"]>>,
     <<"eve", "POST", "2012", NoId, [title |-> "Sunrise Yoga"]>>}

EventUpdates ==
    ({"alice"} \X {"PUT"} \X {"2012"} \X EventIds \X
        {[year |-> "2011"],
         [moderation |-> "a", list_online |-> "yes"],
         [moderation |-> "x"],
         [hosted_by_camp |-> "9"],
         [moderation |-> "a", located_at_art |-> "9"]})
    \cup
    {<<"alice", "PUT", "2012", MissingId, [moderation |-> "a"]>>,
     <<"bob", "POST", "2011", 1, Empty>>,
     <<"alice", "PUT", NoYear, 1, [year |-> "1999"]>>,
     <<"eve", "PUT", "2012", 1, [moderation |-> "a", list_online |-> "yes"]>>}

EventDeletes ==
    ({"alice"} \X {"2012"} \X (EventIds \cup {NoId, MissingId}))
    \cup {<<"eve", "2012", 1>>, <<"eve", "2012", NoId>>}

EventReads ==
    ({NoYear, "2012", "1999"} \X {NoId, 1} \X {NoTime} \X {NoTime})
    \cup {<<"2011", MaxRows, NoTime, NoTime>>}

EventRangeReads ==
    {<<"2012", NoId, MaxTime, NoTime>>, <<"2012", NoId, NoTime, 1>>,
     <<"2012", NoId, 1, MaxTime>>, <<"2012", NoId, NoTime, NoTime>>,
     <<"2012", 1, 1, MaxTime>>, <<NoYear, NoId, 1, MaxTime>>}

CampCreates ==
    {<<"alice", "POST", "2012", NoId, [name |-> "Camp A"]>>,
     <<"alice", "POST", "2011", NoId, [name |-> "Camp A", list_online |-> "no"]>>,
     <<"alice", "POST", "2012", NoId, [deleted |-> "1", bm_fm_id |-> "7"]>>,
     <<"alice", "POST", NoYear, NoId, Empty>>,
     <<"alice", "POST", NoYear, NoId, [name |-> "Camp A"]>>,
     <<"alice", "POST", "1999", NoId, [name |-> "Camp A"]>>,
     <<"alice", "POST", "2012", NoId, [time_street |-> "9"]>>,
     <<"bob", "PUT", "2012", NoId, [name |-> "Camp A"]>>,
     <<"eve", "POST", "2012", NoId, [name |-> "Camp A"]>>}

CampUpdates ==
    ({"alice"} \X {"PUT"} \X {"2012"} \X CampIds \X
        {[year |-> "2011"],
         [list_online |-> "0"],
         [list_online |-> "yes"],
         [deleted |-> "0"],
         [circular_street |-> "9"]})
    \cup
    {<<"alice", "PUT", "2012", MissingId, [name |-> "Camp A"]>>,
     <<"alice", "POST", "2011", 1, Empty>>,
     <<"alice", "PUT", NoYear, 1, [year |-> "1999"]>>,
     <<"eve", "PUT", "2012", 1, [list_online |-> "0"]>>}

CampDeletes ==
    ({"alice"} \X {"2012"} \X (CampIds \cup {NoId, MissingId}))
    \cup {<<"eve", "2012", 1>>, <<"eve", "2012", NoId>>}

CampReads ==
    ({NoYear, "2012", "1999"} \X {NoId, 1}) \cup {<<"2011", MaxRows>>}

Next ==
    \/ \E r \in EventCreates \cup EventUpdates :
            PlayaEventWrite(r[1], r[2], r[3], r[4], r[5])
    \/ \E r \in EventDeletes : PlayaEventDelete(r[1], r[2], r[3])
    \/ \E r \in CampCreates \cup CampUpdates :
            ThemeCampWrite(r[1], r[2], r[3], r[4], r[5])
    \/ \E r \in CampDeletes : ThemeCampDelete(r[1], r[2], r[3])
    \/ \E r \in CampReads : ThemeCampRead(r[1], r[2])

Spec == Init /\ [][Next]_vars

(***************************************************************************)
(* The event handlers beside the scheduling subsystem: the reads with a     *)
(* time range over the occurrences it adds.                                 *)
(***************************************************************************)
OccCreates ==
    {<<"alice", "POST", "2012", NoId, [title |-> "Sunrise Yoga"]>>,
     <<"alice", "POST", "2011", NoId, [moderation |-> "a", list_online |-> "yes"]>>}

OccUpdates ==
    {"alice"} \X {"PUT"} \X {NoYear} \X EventIds \X
        {[moderation |-> "a", list_online |-> "yes"],
         [moderation |-> "R"],
         [list_online |-> "0"]}

OccDeletes == {"alice"} \X {"2012"} \X EventIds

NextOcc ==
    \/ \E r \in OccCreates \cup OccUpdates :
            PlayaEventWrite(r[1], r[2], r[3], r[4], r[5])
    \/ \E r \in OccDeletes : PlayaEventDelete(r[1], r[2], r[3])
    \/ \E r \in EventReads \cup EventRangeReads :
            PlayaEventRead(r[1], r[2], r[3], r[4])
    \/ \E e \in EventIds, t1 \in Times, t2 \in Times : AddOccurrence(e, t1, t2)

SpecOcc == Init /\ [][NextOcc]_vars

(***************************************************************************)
(* The get_and_cache managers beside the writes of the API, while time      *)
(* passes.                                                                  *)
(***************************************************************************)
CacheEventWrites ==
    {<<"alice", "POST", "2012", NoId, [moderation |-> "a", list_online |-> "yes"]>>}

CacheCampWrites ==
    {<<"alice", "POST", "2012", NoId, [name |-> "Camp A"]>>,
     <<"alice", "PUT", NoYear, 1, [list_online |-> "0"]>>}

CacheCalls ==
    {<<"ThemeCamp", [year |-> "2012"]>>, <<"ThemeCampAll", Empty>>,
     <<"PlayaEvent", Empty>>}

NextCache ==
    \/ \E r \in CacheEventWrites :
            PlayaEventWrite(r[1], r[2], r[3], r[4], r[5])
    \/ PlayaEventDelete("alice", "2012", 1)
    \/ \E r \in CacheCampWrites :
            ThemeCampWrite(r[1], r[2], r[3], r[4], r[5])
    \/ ThemeCampDelete("alice", "2012", 1)
    \/ \E r \in CacheCalls : GetAndCache(r[1], r[2])
    \/ Tick

SpecCache == Init /\ [][NextCache]_vars

(***************************************************************************)
(* The life of an event: created on the year-2012 path, moderated, made     *)
(* visible, deleted, and listed by the public reads in between.             *)
(***************************************************************************)
LifeCreates ==
    {<<"alice", "POST", "2012", NoId,
       [title |-> "Sunrise Yoga", event_type |-> "WS"]>>}

LifeUpdates ==
    {"alice"} \X {"PUT"} \X {"2012"} \X EventIds \X
        {[moderation |-> "a"], [list_online |-> "yes"]}

LifeDeletes == {"alice"} \X {"2012"} \X EventIds

LifeReads == {<<"2012", NoId, NoTime, NoTime>>, <<NoYear, NoId, NoTime, NoTime>>}

NextLife ==
    \/ \E r \in LifeCreates \cup LifeUpdates :
            PlayaEventWrite(r[1], r[2], r[3], r[4], r[5])
    \/ \E r \in LifeDeletes : PlayaEventDelete(r[1], r[2], r[3])
    \/ \E r \in LifeReads : PlayaEventRead(r[1], r[2], r[3], r[4])

SpecLife == Init /\ [][NextLife]_vars

(***************************************************************************)
(* The event handlers under payloads with and without an event_type.        *)
(***************************************************************************)
TypeCreates ==
    {"alice"} \X {"POST"} \X {"2012"} \X {NoId} \X
        {[title |-> "Sunrise Yoga"],
         [event_type |-> "WS"],
         [event_type |-> "ZZ"],
         [event_type |-> "GN", moderation |-> "a"]}

TypeUpdates ==
    {"alice"} \X {"PUT"} \X {"2012"} \X EventIds \X
        {[event_type |-> "WS"],
         [event_type |-> "ZZ"],
         [event_type |-> "GN", url |-> "http://a"]}

NextType ==
    \/ \E r \in TypeCreates \cup TypeUpdates :
            PlayaEventWrite(r[1], r[2], r[3], r[4], r[5])
    \/ \E e \in EventIds : PlayaEventDelete("alice", "2012", e)

SpecType == Init /\ [][NextType]_vars

(***************************************************************************)
(* The write handlers under payloads with boolean fields.                   *)
(***************************************************************************)
BoolEventCreates ==
    {"alice"} \X {"POST"} \X {"2012"} \X {NoId} \X
        {[title |-> "Sunrise Yoga"],
         [all_day |-> "Yes", check_location |-> "0"],
         [list_online |-> "on", list_contact_online |-> "no"]}

BoolEventUpdates ==
    {"alice"} \X {"PUT"} \X {"2012"} \X EventIds \X
        {[all_day |-> "t"],
         [list_online |-> "x"],
         [check_location |-> "1", list_contact_online |-> "TRUE"]}

BoolCampCreates ==
    {"alice"} \X {"POST"} \X {"2012"} \X {NoId} \X
        {[name |-> "Camp A"],
         [name |-> "Camp A", list_online |-> "no"]}

BoolCampUpdates ==
    {"alice"} \X {"PUT"} \X {"2012"} \X CampIds \X
        {[list_online |-> "y"], [list_online |-> "0"], [name |-> "Camp B"]}

NextBool ==
    \/ \E r \in BoolEventCreates \cup BoolEventUpdates :
            PlayaEventWrite(r[1], r[2], r[3], r[4], r[5])
    \/ \E r \in BoolCampCreates \cup BoolCampUpdates :
            ThemeCampWrite(r[1], r[2], r[3], r[4], r[5])

SpecBool == Init /\ [][NextBool]_vars

(***************************************************************************)
(* The event handlers under payloads with a moderation.                     *)
(***************************************************************************)
ModCreates ==
    {"alice"} \X {"POST"} \X {"2012"} \X {NoId} \X
        {[title |-> "Sunrise Yoga"],
         [moderation |-> "r"],
         [moderation |-> "x", url |-> "http://a"]}

ModUpdates ==
    {"alice"} \X {"PUT"} \X {"2012"} \X EventIds \X
        {[moderation |-> "a"],
         [moderation |-> "U", url |-> "http://b"],
         [moderation |-> "accepted", list_online |-> "on"],
         [moderation |-> "x", url |-> "http://a"]}

NextMod ==
    \/ \E r \in ModCreates \cup ModUpdates :
            PlayaEventWrite(r[1], r[2], r[3], r[4], r[5])
    \/ \E e \in EventIds : PlayaEventDelete("alice", "2012", e)

SpecMod == Init /\ [][NextMod]_vars

(***************************************************************************)
(* The write handlers under payloads with foreign keys.                     *)
(***************************************************************************)
FkCampWrites ==
    {<<"alice", "POST", "2012", NoId, [name |-> "Camp A"]>>,
     <<"alice", "POST", "2012", NoId, [circular_street |-> "1"]>>,
     <<"alice", "POST", "2012", NoId, [time_street |-> "9"]>>,
     <<"alice", "PUT", "2012", 1, [circular_street |-> "3", name |-> "Camp B"]>>,
     <<"alice", "PUT", "2012", 1, [time_street |-> "1", list_online |-> "no"]>>}

FkEventWrites ==
    {<<"alice", "POST", "2012", NoId, [hosted_by_camp |-> "1"]>>,
     <<"alice", "POST", "2012", NoId, [located_at_art |-> "1"]>>,
     <<"alice", "POST", "2012", NoId, [hosted_by_camp |-> "abc"]>>,
     <<"alice", "PUT", "2012", 1, [located_at_art |-> "2", moderation |-> "a"]>>,
     <<"alice", "PUT", "2012", 2, [hosted_by_camp |-> "2", moderation |-> "a"]>>,
     <<"alice", "PUT", "2012", 2, [hosted_by_camp |-> "1", url |-> "http://a"]>>}

NextFk ==
    \/ \E r \in FkEventWrites :
            PlayaEventWrite(r[1], r[2], r[3], r[4], r[5])
    \/ \E r \in FkCampWrites :
            ThemeCampWrite(r[1], r[2], r[3], r[4], r[5])

SpecFk == Init /\ [][NextFk]_vars

(***************************************************************************)
(* The search beside the event writes.                                      *)
(***************************************************************************)
SearchWrites ==
    {<<"alice", "POST", "2012", NoId, [moderation |-> "a", list_online |-> "yes"]>>,
     <<"alice", "POST", "2011", NoId, [moderation |-> "a", list_online |-> "yes"]>>,
     <<"alice", "POST", "2012", NoId, [moderation |-> "a"]>>,
     <<"alice", "PUT", NoYear, 1, [list_online |-> "0"]>>}

SearchYears == {NoYear, AllYears, "2011", "2012", "1999"}

NextSearch ==
    \/ \E r \in SearchWrites :
            PlayaEventWrite(r[1], r[2], r[3], r[4], r[5])
    \/ \E e \in EventIds : PlayaEventDelete("alice", "2012", e)
    \/ \E own \in SUBSET EventIds, linked \in SUBSET EventIds,
          year \in SearchYears : PlayaEventSearch(own, linked, year)

SpecSearch == Init /\ [][NextSearch]_vars

(***************************************************************************)
(* The write handlers under payloads that name the attributes a write must  *)
(* not set.                                                                 *)
(***************************************************************************)
StripCampWrites ==
    {<<"alice", "POST", "2012", NoId, [name |-> "Camp A"]>>,
     <<"alice", "POST", "2012", NoId,
       [name |-> "Camp A", deleted |-> "True", bm_fm_id |-> "7"]>>,
     <<"alice", "POST", "2012", NoId, [id |-> "2", pk |-> "2"]>>}
    \cup
    ({"alice"} \X {"PUT"} \X {"2012"} \X CampIds \X
        {[deleted |-> "False"],
         [bm_fm_id |-> "3", name |-> "Camp B"],
         [id |-> "2", name |-> "Camp B"]})

StripEventWrites ==
    {<<"alice", "POST", "2012", NoId, [id |-> "2", url |-> "http://a"]>>,
     <<"alice", "PUT", "2012", 1, [pk |-> "2", url |-> "http://b"]>>}

NextStrip ==
    \/ \E r \in StripCampWrites :
            ThemeCampWrite(r[1], r[2], r[3], r[4], r[5])
    \/ \E c \in CampIds : ThemeCampDelete("alice", "2012", c)
    \/ \E r \in StripEventWrites :
            PlayaEventWrite(r[1], r[2], r[3], r[4], r[5])
    \/ \E e \in EventIds : PlayaEventDelete("alice", "2012", e)

SpecStrip == Init /\ [][NextStrip]_vars

(***************************************************************************)
(* The public camp reads beside the camp writes.                            *)
(***************************************************************************)
AnonymousCampReads ==
    {Empty, [year_year |-> "2012"], [year_year |-> "2011"],
     [year_year |-> "2012", camp_id |-> 1]}

NextAnon ==
    \/ \E r \in BoolCampCreates \cup BoolCampUpdates :
            ThemeCampWrite(r[1], r[2], r[3], r[4], r[5])
    \/ \E r \in CampReads : ThemeCampRead(r[1], r[2])
    \/ \E k \in AnonymousCampReads : AnonymousThemeCampRead(k)

SpecAnon == Init /\ [][NextAnon]_vars

(***************************************************************************)
(* An update of an event whose load and save are apart, beside the writes   *)
(* and deletes of other requests.                                           *)
(***************************************************************************)
RaceCreates ==
    {<<"alice", "POST", "2012", NoId, [moderation |-> "a", list_online |-> "yes"]>>}

RaceUpdates ==
    {"bob"} \X {"PUT"} \X {"2012"} \X EventIds \X
        {[url |-> "http://a"], [list_online |-> "0"]}

RaceOthers ==
    {"alice"} \X {"PUT"} \X {"2012"} \X EventIds \X {[url |-> "http://b"]}

NextRace ==
    \/ \E r \in RaceCreates \cup RaceOthers :
            PlayaEventWrite(r[1], r[2], r[3], r[4], r[5])
    \/ \E r \in RaceUpdates : PlayaEventLoad(r[1], r[2], r[3], r[4], r[5])
    \/ \E w \in inflight : PlayaEventSave(w)
    \/ \E e \in EventIds : PlayaEventDelete("alice", "2012", e)

SpecRace == Init /\ [][NextRace]_vars

(***************************************************************************)
(* Camps that are hidden (list_online false): creates, updates that hide    *)
(* or try to show a camp, deletes, events naming a camp as their host, and  *)
(* an update of a camp whose load and save are apart.                       *)
(***************************************************************************)
HideCampCreates ==
    {<<"alice", "POST", "2012", NoId, [name |-> "Camp A"]>>,
     <<"alice", "POST", "2012", NoId, [name |-> "Camp B", list_online |-> "no"]>>}

HideCampUpdates ==
    {"alice"} \X {"PUT"} \X {"2012"} \X CampIds \X
        {[list_online |-> "no"], [list_online |-> "yes"]}

HideCampOverlapping ==
    {"bob"} \X {"PUT"} \X {"2012"} \X CampIds \X {[url |-> "http://a"]}

HideEventWrites ==
    {<<"bob", "POST", "2012", NoId, [hosted_by_camp |-> "1"]>>,
     <<"bob", "POST", "2012", NoId, [hosted_by_camp |-> "2"]>>}

NextHide ==
    \/ \E r \in HideCampCreates \cup HideCampUpdates :
            ThemeCampWrite(r[1], r[2], r[3], r[4], r[5])
    \/ \E r \in HideCampOverlapping : ThemeCampLoad(r[1], r[2], r[3], r[4], r[5])
    \/ \E w \in inflight : ThemeCampSave(w)
    \/ \E c \in CampIds : ThemeCampDelete("bob", "2012", c)
    \/ \E r \in HideEventWrites :
            PlayaEventWrite(r[1], r[2], r[3], r[4], r[5])

SpecHide == Init /\ [][NextHide]_vars

(***************************************************************************)
(* The get_and_cache managers over a cache backend that may fail.           *)
(***************************************************************************)
NextBackend ==
    \/ \E r \in CacheCampWrites :
            ThemeCampWrite(r[1], r[2], r[3], r[4], r[5])
    \/ \E r \in CacheCalls : GetAndCache(r[1], r[2])
    \/ \E r \in CacheCalls : GetAndCacheBackendDown(r[1], r[2])
    \/ \E b \in BackendStates : SetBackend(b)
    \/ Tick

SpecBackend == Init /\ [][NextBackend]_vars

(***************************************************************************)
(* Properties.                                                              *)
(***************************************************************************)
Visible(e) == events[e].moderation = "A" /\ events[e].list_online = PyTrue
WriteOps == {"event_write", "event_delete", "camp_write", "camp_delete"}
Succeeded == response.status \in {"ALL_OK", "CREATED"}
StoreUnchanged == events' = events /\ camps' = camps

(* C1: no public Event read, whatever its parameters (no year; year; year  *)
(* and id; year and a time range), returns an event whose moderation is    *)
(* not Accepted or whose list_online is not true.                          *)
C1_ReadOnlyVisible ==
    request.op = "event_read" => \A e \in response.rows : Visible(e)

(* C2: once a DELETE of an event has succeeded, its moderation is Rejected *)
(* and, while no later write changes it, no public Event read returns it.  *)
C2_DeletedEventHidden ==
    /\ \A e \in tombstones : events[e].moderation = "R"
    /\ request.op = "event_read" => response.rows \cap tombstones = {}

(* C3: once a DELETE of a camp has succeeded (its deleted flag is set,     *)
(* which nothing else sets or clears), no public ThemeCamp read returns    *)
(* it, while the unfiltered accessor still finds it by id.                 *)
C3_DeletedCampHidden ==
    \A c \in DOMAIN camps :
        camps[c].deleted = PyTrue =>
            /\ request.op = "camp_read" => c \notin response.rows
            /\ ThemeCamp_all_objects_by_id(c) = {c}

(* C4 as claimed: an event the create path has just persisted has          *)
(* moderation Unmoderated, whatever the payload holds.                     *)
C4_CreateUnmoderated ==
    (request.op = "event_write" /\ request.id = NoId /\ Succeeded)
        => events[response.pk].moderation = "U"

(* C4 as amended: an event the create path has just persisted has          *)
(* moderation Unmoderated, unless the payload has a moderation whose       *)
(* upper-cased value is U, A or R: then it has that moderation.            *)
C4_CreateModeration ==
    (request.op = "event_write" /\ request.id = NoId /\ Succeeded)
        => events[response.pk].moderation =
              IF /\ Has(request.data, "moderation")
                 /\ Upper(request.data["moderation"]) \in {"U", "A", "R"}
              THEN Upper(request.data["moderation"])
              ELSE "U"

C4_Witness ==
    /\ request.op = "event_write" /\ request.id = NoId /\ Succeeded
    /\ Has(request.data, "moderation")
    /\ Has(request.data, "list_online")
    /\ Upper(request.data["moderation"]) \notin {"U", "A", "R"}
    /\ events[response.pk].moderation = "U"

(* C5: no request changes the year of a persisted event or camp: an update *)
(* leaves it alone whether the year comes from the payload or the path.    *)
C5_YearImmutable ==
    [][/\ \A e \in DOMAIN events : events'[e].year = events[e].year
       /\ \A c \in DOMAIN camps : camps'[c].year = camps[c].year]_vars

C5_Witness ==
    /\ request.op = "event_write" /\ request.id \in DOMAIN events
    /\ response.status = "ALL_OK"
    /\ Has(request.data, "year")
    /\ request.data["year"] \in Years
    /\ request.data["year"] # events[request.id].year

(* C6: a create, update or delete by an actor whose profile lacks          *)
(* api_allowed is answered with the permission error (bad request),        *)
(* whatever the verb, payload, year or id, and leaves the store unchanged. *)
C6_NotAllowedRejected ==
    [][(request'.op \in WriteOps /\ ~api_allowed[request'.user])
          => /\ response'.status = "BAD_REQUEST"
             /\ response'.msg = "User not permitted to use the API"
             /\ StoreUnchanged]_vars

C6_Witness ==
    /\ request.op = "event_write" /\ request.user = "eve"
    /\ request.id \in DOMAIN events
    /\ Has(request.data, "moderation")
    /\ response.status = "BAD_REQUEST"

(* C7: a create/update that answers with an error response (missing        *)
(* information, id not found, unknown event type, unknown year,            *)
(* unresolvable foreign key) adds no row and changes no field of a row.    *)
C7_ErrorLeavesStore ==
    [][(/\ request'.op \in {"event_write", "camp_write"}
        /\ response'.status \in {"BAD_REQUEST", "NOT_HERE"})
          => StoreUnchanged]_vars

C7_Witness ==
    /\ request.op = "event_write" /\ request.id \in DOMAIN events
    /\ response.status = "NOT_HERE" /\ response.msg = "No such art"
    /\ Has(request.data, "moderation")
    /\ Upper(request.data["moderation"]) = "A"
    /\ events[request.id].moderation # "A"

(* C8: a DELETE by an allowed actor with the id of a row that exists,      *)
(* whatever its moderation, list_online or deleted value, puts the row in  *)
(* its terminal state (event: Rejected; camp: deleted) and answers         *)
(* DELETED with the id.                                                    *)
C8_DeleteExisting ==
    /\ (/\ request.op = "event_delete" /\ api_allowed[request.user]
        /\ request.id \in DOMAIN events)
          => /\ response.status = "DELETED" /\ response.pk = request.id
             /\ events[request.id].moderation = "R"
    /\ (/\ request.op = "camp_delete" /\ api_allowed[request.user]
        /\ request.id \in DOMAIN camps)
          => /\ response.status = "DELETED" /\ response.pk = request.id
             /\ camps[request.id].deleted = PyTrue

(* C9: a DELETE by an allowed actor without an id is answered not-found,   *)
(* "ID required"; with an id that matches no row it is answered not-found  *)
(* naming the id; neither changes or removes a row.                        *)
C9_DeleteErrors ==
    [][(request'.op \in {"event_delete", "camp_delete"}
            /\ api_allowed[request'.user])
          => /\ request'.id = NoId
                  => /\ response'.status = "NOT_HERE"
                     /\ response'.msg =
                          (IF request'.op = "event_delete"
                           THEN "Event ID required" ELSE "Camp ID required")
                     /\ StoreUnchanged
             /\ (/\ request'.id # NoId
                 /\ request'.id \notin
                      (IF request'.op = "event_delete"
                       THEN DOMAIN events ELSE DOMAIN camps))
                  => /\ response'.status = "NOT_HERE"
                     /\ response'.msg =
                          (IF request'.op = "event_delete"
                           THEN "Event not found" ELSE "Camp not found")
                     /\ response'.arg = ToString(request'.id)
                     /\ StoreUnchanged]_vars

C9_Witness ==
    /\ request.op = "event_delete" /\ request.id = MissingId
    /\ api_allowed[request.user]
    /\ Len(events) > 0
    /\ response.status = "NOT_HERE" /\ response.arg = ToString(MissingId)

IsCacheCall(r) == r.method = "get_and_cache"
KeyOf(r) == cache_key(r.op, r.data)

(* C10: for each accessor, a get_and_cache call whose key was stored less  *)
(* than the cache length ago returns the sequence the previous call with   *)
(* that key returned, whatever was created, updated or deleted in between, *)
(* runs no query and leaves the cache alone; and no write of the API       *)
(* changes the cache.                                                      *)
C10_CacheStaleness ==
    [][/\ (IsCacheCall(request') /\ Cached(KeyOf(request')))
            => /\ response'.rows = lastcall[KeyOf(request')]
               /\ ~queried'
               /\ cache' = cache
       /\ request'.op \in WriteOps => cache' = cache]_vars

C10_Witness ==
    /\ IsCacheCall(request) /\ request.op = "ThemeCampAll"
    /\ ~queried
    /\ response.rows # CampList(ThemeCampAllManager_get_query_set)
    /\ \E i \in DOMAIN response.rows :
          response.rows[i].row # camps[response.rows[i].pk]

(* what the query of an accessor gives on the tables as they are *)
FreshList(kind, kwargs) ==
    CASE kind = "ThemeCamp" ->
            CampList({c \in ThemeCampManager_get_query_set : Matches(camps[c], kwargs)})
      [] kind = "ThemeCampAll" ->
            CampList({c \in ThemeCampAllManager_get_query_set : Matches(camps[c], kwargs)})
      [] kind = "PlayaEvent" ->
            EventList({e \in PlayaEvent_objects : Matches(events[e], kwargs)})

(* C11: caching is best-effort: a get_and_cache call made while the cache  *)
(* backend fails on reads returns the sequence computed from the tables,   *)
(* and one made while the backend fails on writes returns a sequence too   *)
(* (the error of the write is swallowed); neither ends in an exception.    *)
C11_CacheBestEffort ==
    (IsCacheCall(request) /\ backend # "up")
        => /\ response.status = "QUERYSET"
           /\ backend = "get fails"
                => response.rows = FreshList(request.op, request.data)

(* C12: the life of an event, for an allowed actor.  A POST on the         *)
(* year-2012 path with an existing event_type answers CREATED with the pk  *)
(* of a new row whose moderation is Unmoderated and whose year is 2012; a  *)
(* PUT on an existing id with moderation 'a' leaves it Accepted; a DELETE  *)
(* on an existing id leaves it Rejected; and the year-only listing of      *)
(* 2012 holds no event whose last successful write was a DELETE.           *)
C12_Lifecycle ==
    [][/\ (/\ request'.op = "event_write" /\ request'.method = "POST"
           /\ request'.id = NoId /\ request'.year_year = "2012"
           /\ api_allowed[request'.user]
           /\ Has(request'.data, "event_type")
           /\ EventTypeByAbbr(request'.data["event_type"]) # {}
           /\ ~Has(request'.data, "moderation"))
             => /\ response'.status = "CREATED"
                /\ response'.pk = Len(events) + 1
                /\ Len(events') = Len(events) + 1
                /\ events'[response'.pk].moderation = "U"
                /\ events'[response'.pk].year = "2012"
       /\ (/\ request'.op = "event_write" /\ request'.method = "PUT"
           /\ request'.id \in DOMAIN events
           /\ api_allowed[request'.user]
           /\ request'.data = [moderation |-> "a"])
             => /\ response'.status = "ALL_OK"
                /\ events'[request'.id].moderation = "A"
       /\ (/\ request'.op = "event_delete"
           /\ request'.id \in DOMAIN events
           /\ api_allowed[request'.user])
             => /\ response'.status = "DELETED"
                /\ events'[request'.id].moderation = "R"
                /\ request'.id \in tombstones'
       /\ (/\ request'.op = "event_read" /\ request'.year_year = "2012"
           /\ request'.id = NoId
           /\ request'.start_time = NoTime /\ request'.end_time = NoTime)
             => response'.rows \cap tombstones' = {}]_vars

(* a listing of 2012 that holds an accepted event and leaves out a deleted *)
(* one which had been made visible                                         *)
C12_Witness ==
    /\ request.op = "event_read" /\ request.year_year = "2012"
    /\ request.id = NoId
    /\ response.rows # {}
    /\ \E e \in tombstones :
          /\ events[e].year = "2012" /\ events[e].list_online = PyTrue
          /\ events[e].event_type = 2
          /\ e \notin response.rows

(* C13: a create whose payload has no event_type persists the event with   *)
(* the default event type (pk 1); a create whose event_type abbreviation   *)
(* matches no EventType is answered not-found naming the type and          *)
(* persists nothing; and no request changes the event_type of a persisted  *)
(* event.                                                                  *)
C13_EventType ==
    [][/\ (/\ request'.op = "event_write" /\ request'.id = NoId
           /\ response'.status \in {"ALL_OK", "CREATED"}
           /\ ~Has(request'.data, "event_type"))
             => /\ Len(events') = Len(events) + 1
                /\ events'[response'.pk].event_type = DefaultEventType
       /\ (/\ request'.op = "event_write" /\ request'.id = NoId
           /\ api_allowed[request'.user]
           /\ request'.method \in {"PUT", "POST"}
           /\ Has(request'.data, "event_type")
           /\ \A t \in DOMAIN EventTypes :
                 EventTypes[t] # request'.data["event_type"])
             => /\ response'.status = "NOT_HERE"
                /\ response'.msg = "No such EventType"
                /\ response'.arg = request'.data["event_type"]
                /\ events' = events
       /\ \A e \in DOMAIN events :
             events'[e].event_type = events[e].event_type]_vars

(* an update that names another event type has succeeded and the event     *)
(* still has the type it was created with                                  *)
C13_Witness ==
    /\ request.op = "event_write" /\ request.id \in DOMAIN events
    /\ response.status = "ALL_OK"
    /\ Has(request.data, "event_type")
    /\ request.data["event_type"] = "GN"
    /\ events[request.id].event_type = 2
    /\ \E e \in DOMAIN events : events[e].event_type = DefaultEventType

(* the boolean a field of a row must hold after a write that saved it:     *)
(* the coerced payload value when the payload has the field, else what it  *)
(* held before (old)                                                       *)
ExpectedBool(data, f, old) ==
    IF Has(data, f)
    THEN (IF Upper(data[f]) \in {"1", "T", "Y", "YES", "TRUE", "ON"}
          THEN PyTrue ELSE PyFalse)
    ELSE old

(* C14: after a create/update that saved, each whitelisted boolean field   *)
(* (event: check_location, all_day, list_online, list_contact_online;      *)
(* camp: list_online) that is in the payload is true exactly when the      *)
(* upper-cased payload value is one of 1, T, Y, YES, TRUE, ON, and false   *)
(* otherwise; a field that is not in the payload keeps its value (on a     *)
(* create: the default of the column).                                     *)
C14_BoolCoercion ==
    [][/\ (request'.op = "event_write"
              /\ response'.status \in {"ALL_OK", "CREATED"})
          => \A f \in {"check_location", "all_day", "list_online",
                       "list_contact_online"} :
                events'[response'.pk][f] =
                    ExpectedBool(request'.data, f,
                        IF request'.id = NoId THEN None ELSE events[request'.id][f])
       /\ (request'.op = "camp_write"
              /\ response'.status \in {"ALL_OK", "CREATED"})
          => camps'[response'.pk].list_online =
                ExpectedBool(request'.data, "list_online",
                    IF request'.id = NoId THEN PyTrue
                    ELSE camps[request'.id].list_online)]_vars

(* an update has set list_online false from a value that is no truthy word *)
(* and has kept the all_day the create coerced from "Yes"                  *)
C14_Witness ==
    /\ request.op = "event_write" /\ request.id \in DOMAIN events
    /\ response.status = "ALL_OK"
    /\ request.data = [list_online |-> "x"]
    /\ events[request.id].list_online = PyFalse
    /\ events[request.id].all_day = PyTrue
    /\ events[request.id].check_location = PyFalse
    /\ events[request.id].list_contact_online = None

(* C15: an event write by an allowed actor, on the create path or on an    *)
(* existing id, whose payload has a moderation and beside it only the url  *)
(* and list_online fields: it succeeds; the moderation of the row is the   *)
(* upper-cased payload value if that is U, A or R, and else what it was    *)
(* (on a create: Unmoderated); and the url and list_online of the payload  *)
(* are applied.                                                            *)
C15_Moderation ==
    [][(/\ request'.op = "event_write"
        /\ api_allowed[request'.user]
        /\ request'.method \in {"PUT", "POST"}
        /\ request'.year_year \in Years
        /\ request'.id = NoId \/ request'.id \in DOMAIN events
        /\ Has(request'.data, "moderation")
        /\ DOMAIN request'.data \subseteq {"moderation", "url", "list_online"})
          => /\ response'.status \in {"ALL_OK", "CREATED"}
             /\ events'[response'.pk].moderation =
                  (IF Upper(request'.data["moderation"]) \in {"U", "A", "R"}
                   THEN Upper(request'.data["moderation"])
                   ELSE IF request'.id = NoId THEN "U"
                   ELSE events[request'.id].moderation)
             /\ Has(request'.data, "url")
                  => events'[response'.pk].url = request'.data["url"]
             /\ Has(request'.data, "list_online")
                  => events'[response'.pk].list_online =
                        ExpectedBool(request'.data, "list_online", None)]_vars

(* an update with the moderation "accepted" has succeeded on a rejected    *)
(* event: the event is still rejected and list_online has been set         *)
C15_Witness ==
    /\ request.op = "event_write" /\ request.id \in DOMAIN events
    /\ response.status = "ALL_OK"
    /\ Has(request.data, "moderation")
    /\ request.data["moderation"] = "accepted"
    /\ events[request.id].moderation = "R"
    /\ events[request.id].list_online = PyTrue

(* the foreign-key fields of a write and the rows each may refer to *)
ForeignKeys(op) ==
    IF op = "event_write"
    THEN [hosted_by_camp |-> DOMAIN camps, located_at_art |-> ArtInstallations]
    ELSE [circular_street |-> CircularStreets, time_street |-> TimeStreets]

(* the request has a target to work on: the create path, or an id the      *)
(* handler finds                                                           *)
HasTarget(r) ==
    \/ r.id = NoId
    \/ r.op = "event_write" /\ r.id \in PlayaEvent_objects
    \/ r.op = "camp_write" /\ r.id \in ThemeCampManager_get_query_set

(* C16: a create/update by an allowed actor whose payload has a            *)
(* foreign-key field (event: hosted_by_camp, located_at_art; camp:         *)
(* circular_street, time_street) with a key that matches no existing row   *)
(* is answered not-found naming the key, and nothing is saved; and after   *)
(* a write that succeeded, each foreign-key column the payload named       *)
(* refers to an existing row.                                              *)
C16_ForeignKeys ==
    [][(request'.op \in {"event_write", "camp_write"}
            /\ api_allowed[request'.user] /\ HasTarget(request'))
          => LET fks == ForeignKeys(request'.op)
                 bad == {f \in DOMAIN fks :
                            /\ Has(request'.data, f)
                            /\ IntOf(request'.data[f]) \notin fks[f]}
             IN  /\ bad # {}
                    => /\ response'.status = "NOT_HERE"
                       /\ \E f \in bad : response'.arg = request'.data[f]
                       /\ StoreUnchanged
                 /\ response'.status \in {"ALL_OK", "CREATED"}
                    => /\ bad = {}
                       /\ request'.op = "event_write"
                            => \A f \in DOMAIN fks :
                                  Has(request'.data, f)
                                     => events'[response'.pk][f] \in fks[f]
                       /\ (request'.op = "camp_write"
                             /\ Has(request'.data, "circular_street"))
                            => camps'[response'.pk].circular_street
                                    \in CircularStreets]_vars

(* C17: with the text match taken as given (the events whose own text      *)
(* matches, the events whose scheduling record matches), search returns    *)
(* exactly the matching events whose moderation is Accepted and whose      *)
(* list_online is true, of the given year when a year other than 'all' is  *)
(* given, and of every year when the year is absent or 'all'.              *)
C17_Search ==
    request.op = "event_search"
        => response.rows =
              {e \in DOMAIN events :
                  /\ e \in request.data.own \cup request.data.linked
                  /\ Visible(e)
                  /\ request.year_year \notin {NoYear, "all"}
                        => events[e].year = request.year_year}

(* two visible events match, one by its own text and one by its record's,  *)
(* and the search of 2012 returns the one of that year only                *)
C17_Witness ==
    /\ request.op = "event_search" /\ request.year_year = "2012"
    /\ request.data.own = {1} /\ request.data.linked = {2}
    /\ Len(events) = 2
    /\ Visible(1) /\ Visible(2)
    /\ Cardinality(response.rows) = 1

(* C18: Rejected is terminal: once the moderation of an event is Rejected, *)
(* no create, update or delete changes it to Unmoderated or Accepted, and  *)
(* the row is never removed.                                               *)
C18_RejectedTerminal ==
    [][\A e \in DOMAIN events :
          events[e].moderation = "R"
             => /\ e \in DOMAIN events'
                /\ events'[e].moderation = "R"]_vars

C20_RangeNarrows ==
    (/\ request.op = "event_read" /\ request.year_year \in Years
     /\ request.id = NoId)
        => response.rows =
              {e \in DOMAIN events :
                  /\ events[e].year = request.year_year
                  /\ Visible(e)
                  /\ (request.start_time # NoTime \/ request.end_time # NoTime)
                        => \E o \in occurrences :
                              /\ o.event = e
                              /\ request.start_time # NoTime
                                    => o.start_time >= request.start_time
                              /\ request.end_time # NoTime
                                    => o.end_time <= request.end_time}

(* C21: the anonymous camp read answers every call for no year or an      *)
(* existing year with a result: with no year the camps whose list_online   *)
(* is true, with a year those of that year, with a year and an id the one  *)
(* of that id among them, if any; it never fails.                          *)
C21_AnonymousCampRead ==
    (/\ request.op = "camp_read_anonymous"
     /\ request.year_year \in Years \cup {NoYear})
        => /\ response.status = "QUERYSET"
           /\ response.rows =
                {c \in DOMAIN camps :
                    /\ camps[c].list_online = PyTrue
                    /\ request.year_year # NoYear
                          => /\ camps[c].year = request.year_year
                             /\ request.id # NoId => c = request.id}

(* C22: the visibility rule is part of the default accessors: every row a  *)
(* get_and_cache of the default ThemeCamp accessor computes on a cache     *)
(* miss has list_online true, and every row a get_and_cache of the default *)
(* Event accessor computes on a cache miss has moderation Accepted and     *)
(* list_online true.                                                       *)
C22_DefaultAccessorsFiltered ==
    (IsCacheCall(request) /\ queried /\ response.status = "QUERYSET")
        => \A i \in DOMAIN response.rows :
              /\ request.op = "ThemeCamp"
                    => response.rows[i].row.list_online = PyTrue
              /\ request.op = "PlayaEvent"
                    => /\ response.rows[i].row.moderation = "A"
                       /\ response.rows[i].row.list_online = PyTrue

(* C23: last write wins field by field: when an update whose load and save *)
(* are apart saves, every field its payload does not name keeps the value  *)
(* the store holds at that time, written by whichever request set it last; *)
(* so a PUT without moderation does not undo the Rejected of a DELETE that *)
(* completed between its load and its save.                                *)
C23_FieldLevelLastWriteWins ==
    [][\A w \in inflight :
          (w \notin inflight' /\ w.id \in DOMAIN events
             /\ response'.status = "ALL_OK")
             => \A f \in DOMAIN events[w.id] :
                   ~Has(w.payload, f) => events'[w.id][f] = events[w.id][f]]_vars

(* the table a write request works on, before and after the step *)
TableOf(op, es, cs) == IF op = "event_write" THEN es ELSE cs

(* C24: in a create/update that succeeds the verb decides the response     *)
(* (PUT: ok, POST: created) and the id decides the target: with an id the  *)
(* row of that id is the one saved and no row is added; without an id      *)
(* exactly one row is added, under the next key, stamped with the actor    *)
(* as its creator; and the response carries the pk of the row saved.       *)
C24_TargetAndResponse ==
    [][(/\ request'.op \in {"event_write", "camp_write"}
        /\ response'.status \in {"ALL_OK", "CREATED"})
          => LET old == TableOf(request'.op, events, camps)
                 new == TableOf(request'.op, events', camps')
             IN  /\ response'.status =
                      (IF request'.method = "PUT" THEN "ALL_OK" ELSE "CREATED")
                 /\ \A k \in DOMAIN old : k # request'.id => new[k] = old[k]
                 /\ request'.id # NoId
                      => /\ Len(new) = Len(old)
                         /\ response'.pk = request'.id
                 /\ request'.id = NoId
                      => /\ Len(new) = Len(old) + 1
                         /\ response'.pk = Len(new)
                         /\ "creator" \in DOMAIN new[Len(new)]
                         /\ new[Len(new)].creator = request'.user]_vars


(* a step in which a request is answered (not the load of an update that   *)
(* is still to save)                                                       *)
Answered == inflight' \subseteq inflight

(* C25: a camp whose list_online is false stays as it is: an update or a   *)
(* delete naming it is answered not-found, an event write naming it as     *)
(* hosted_by_camp is answered not-found, and no step changes the camp, so  *)
(* list_online never returns to true and deleted is never set.             *)
C25_HiddenCampIrreversible ==
    [][\A c \in DOMAIN camps :
          camps[c].list_online = PyFalse
            => /\ camps'[c] = camps[c]
               /\ (Answered /\ request'.op \in {"camp_write", "camp_delete"}
                     /\ request'.id = c)
                    => response'.status = "NOT_HERE"
               /\ (Answered /\ request'.op = "event_write"
                     /\ Has(request'.data, "hosted_by_camp")
                     /\ request'.data.hosted_by_camp = ToString(c))
                    => response'.status = "NOT_HERE"]_vars

====
